---- MODULE Spec2Model ----
(***************************************************************************)
(* ESRB ratings scraper: the scrape pipeline of scrape.py (main,           *)
(* scrape_page, parse_game_item, the sqlite store) and the manual trigger  *)
(* endpoint of app.py that runs it as a subprocess.                        *)
(*                                                                         *)
(* Text is a sequence of one-character strings; an HTML element's content  *)
(* is a sequence of text nodes.  The store is the state init_db leaves:    *)
(* both tables exist.                                                      *)
(***************************************************************************)
EXTENDS Integers, Sequences, FiniteSets, TLC

\* ------------------------------------------------------------- bounds
\* Identifiers of the explicit upstream pages and of the initial store: 1..MaxId.
MaxId == 2
\* Item fragments on the explicit upstream pages, all pages together.
MaxTotal == 3
\* Pipeline runs (processes) of one behaviour.
MaxRuns == 2
\* Item fragments on the explicit pages where the runs are long (a registry that
\* never runs out) or interleave (the trigger endpoint).
MaxFew == 1
\* The two-page fixture: new items on page 1, and new items on page 2 after its
\* first, stored, item.
Page1New == 3
Page2New == 2
\* Item fragments on the explicit pages of a single run followed to its end.
MaxLong == 2
\* The listing: identifiers of the rows in the table, and the largest per_page.
MaxListed == 3
MaxPerPage == 2

\* scrape.py:175 -- the page cap.
max_pages == 50

Runs == 1..MaxRuns

\* Python's None, and an element or attribute the markup does not hold, are the
\* empty sequence; a value x that is there is <<x>>.
None == <<>>
Absent == <<>>
Some(x) == <<x>>

\* ------------------------------------------------------------- text
WS == " "

RECURSIVE lstrip(_)
lstrip(s) == IF s # <<>> /\ Head(s) = WS THEN lstrip(Tail(s)) ELSE s

RECURSIVE rstrip(_)
rstrip(s) ==
    IF s # <<>> /\ s[Len(s)] = WS THEN rstrip(SubSeq(s, 1, Len(s) - 1)) ELSE s

\* str.strip()
strip(s) == rstrip(lstrip(s))

\* str.replace(old, new) for a two-character old and a one-character new:
\* left to right, non-overlapping.
RECURSIVE replace(_, _, _)
replace(s, old, new) ==
    IF Len(s) < 2 THEN s
    ELSE IF SubSeq(s, 1, 2) = old
         THEN new \o replace(SubSeq(s, 3, Len(s)), old, new)
         ELSE <<Head(s)>> \o replace(Tail(s), old, new)

\* Tag.get_text(separator, strip=True): the stripped text nodes that are not
\* empty, joined by the separator.
RECURSIVE get_text(_, _)
get_text(nodes, separator) ==
    IF nodes = <<>> THEN <<>>
    ELSE LET h == strip(Head(nodes))
             r == get_text(Tail(nodes), separator)
         IN  IF h = <<>> THEN r
             ELSE IF r = <<>> THEN h
             ELSE h \o separator \o r

\* int() of a string of decimal digits.
RECURSIVE ToInt(_)
ToInt(digits) ==
    IF digits = <<>> THEN 0
    ELSE 10 * ToInt(SubSeq(digits, 1, Len(digits) - 1)) + digits[Len(digits)]

\* The decimal digits of n, as they stand in a URL.
RECURSIVE Digits(_)
Digits(n) == IF n < 10 THEN <<n>> ELSE Digits(n \div 10) \o <<n % 10>>

\* ------------------------------------------------------------- URLs
\* A URL is what the pattern /ratings/(\d+)/ reads of it: whether the path
\* holds "/ratings/", and the digits that follow up to the next "/".
EmptyUrl == [path |-> "", digits |-> <<>>]
RatingsUrl(n) == [path |-> "ratings", digits |-> Digits(n)]
OtherUrl == [path |-> "search", digits |-> <<>>]

extract_game_id(url) ==
    IF url = EmptyUrl THEN None
    ELSE IF url.path = "ratings" /\ url.digits # <<>> THEN Some(ToInt(url.digits))
    ELSE None

\* ------------------------------------------------------------- fragments
\* One <div class="game">: the elements parse_game_item looks for.
\*   h2, a      the title element and the link in it
\*   text       the link's text nodes;  href: the link's href, or Absent
\*   platform   the text nodes of div.platforms, or Absent
\*   alt        the alt text of the first img with one, or Absent
\*   table      whether a table is there; rows: its tr count; cells: the td
\*              count of the second row; desc: the text nodes of its second
\*              cell; synopsis: the text nodes of div.synopsis in its fourth
\*              cell, or Absent
\*   raises     an extraction step raises inside the try block
Title == <<"a">>

GoodFrag(n) ==
    [h2 |-> TRUE, a |-> TRUE, text |-> <<Title>>, href |-> Some(RatingsUrl(n)),
     platform |-> Some(<<<<"p">>>>), alt |-> Some(<<"E">>), table |-> TRUE,
     rows |-> 2, cells |-> 4, desc |-> <<<<"d">>>>,
     synopsis |-> Some(<<<<"s">>>>), raises |-> FALSE]

\* Unparseable: no title element.
NoTitleFrag == [GoodFrag(1) EXCEPT !.h2 = FALSE]

\* Unparseable: an extraction step raises.
RaisingFrag == [GoodFrag(1) EXCEPT !.raises = TRUE]

\* "not game_id": None, and the integer 0.
NoGameId(game_id) == game_id = None \/ game_id[1] = 0

parse_game_item(item) ==
    IF item.raises THEN None
    ELSE IF ~item.h2 THEN None
    ELSE IF ~item.a THEN None
    ELSE LET title == get_text(item.text, <<>>)
             url == IF item.href = Absent THEN EmptyUrl ELSE item.href[1]
             game_id == extract_game_id(url)
         IN  IF NoGameId(game_id) THEN None
             ELSE LET platform == IF item.platform # Absent
                                  THEN get_text(item.platform[1], <<>>) ELSE <<>>
                      rating == IF item.alt # Absent THEN item.alt[1] ELSE <<>>
                      hasRow == item.table /\ item.rows > 1
                      descriptors ==
                          IF hasRow /\ item.cells > 1
                          THEN strip(replace(replace(get_text(item.desc, <<WS>>),
                                   <<",", ",">>, <<",">>), <<WS, WS>>, <<WS>>))
                          ELSE <<>>
                      summary ==
                          IF hasRow /\ item.cells > 3 /\ item.synopsis # Absent
                          THEN get_text(item.synopsis[1], <<>>) ELSE <<>>
                  IN  Some([game_id |-> game_id[1], game_title |-> title,
                            platform |-> platform, rating |-> rating,
                            descriptors |-> descriptors, url |-> url,
                            summary |-> summary])

\* ------------------------------------------------------------- upstream
\* The registry as one behaviour sees it: the explicit pages 1..Len(prefix), none
\* of them empty, then pages that are all of one kind:
\*   "empty"  no game items (the registry is exhausted);
\*   "fresh"  one parseable item per page, its identifier in no other place;
\*   "junk"   one unparseable item per page.
Tails == {"empty", "fresh", "junk"}

\* The items of the explicit pages; the pages of a "junk" tail hold the item
\* whose parsing raises.
PipelineItems == {GoodFrag(n) : n \in 1..MaxId} \cup {NoTitleFrag}

ItemSeqs(most) == UNION {[1..n -> PipelineItems] : n \in 0..most}

\* Every way to cut a sequence of items into consecutive non-empty pages.
RECURSIVE Paginations(_)
Paginations(s) ==
    IF s = <<>> THEN {<<>>}
    ELSE UNION {{<<SubSeq(s, 1, k)>> \o rest :
                    rest \in Paginations(SubSeq(s, k + 1, Len(s)))} :
                k \in 1..Len(s)}

Prefixes(most) == UNION {Paginations(s) : s \in ItemSeqs(most)}

FreshId(p) == MaxId + p

\* ------------------------------------------------------------- state
VARIABLES
    prefix,       \* upstream: the explicit pages
    tail,         \* upstream: the kind of every later page
    ratings,      \* table ratings: a set of rows
    scrape_log,   \* table scrape_log: a sequence of rows
    now,          \* CURRENT_TIMESTAMP, as the number of rows written so far
    proc,         \* per run: the scrape.py process and its trigger request
    hist,         \* per run: what the run has done (history, read by no action)
    listing       \* a client of /api/ratings: its query and the pages it got

vars == <<prefix, tail, ratings, scrape_log, now, proc, hist, listing>>

\* soup.find_all('div', class_='game') of page p's response.
PageAt(p) ==
    IF p <= Len(prefix) THEN prefix[p]
    ELSE IF tail = "fresh" THEN <<GoodFrag(FreshId(p))>>
    ELSE IF tail = "junk" THEN <<RaisingFrag>>
    ELSE <<>>

\* A row of ratings: the seven inserted columns and created_at's default.
Row(game_data, t) ==
    [game_id |-> game_data.game_id, game_title |-> game_data.game_title,
     platform |-> game_data.platform, rating |-> game_data.rating,
     descriptors |-> game_data.descriptors, url |-> game_data.url,
     summary |-> game_data.summary, created_at |-> t]

\* Mutant of game_exists: "> 1" for "> 0".
game_exists_more_than_one(table, game_id) ==
    Cardinality({row \in table : row.game_id = game_id}) > 1

\* SELECT COUNT(*) FROM ratings WHERE game_id = ? ... > 0
game_exists(table, game_id) ==
    Cardinality({row \in table : row.game_id = game_id}) > 0

\* Mutant of insert_game: a table without the primary key.
insert_game_no_key(table, row) == Some(table \cup {row})

\* Mutant of insert_game: INSERT OR REPLACE.
insert_game_or_replace(table, row) ==
    Some({old \in table : old.game_id # row.game_id} \cup {row})

\* INSERT INTO ratings ...; commit.  game_id INTEGER PRIMARY KEY: the INSERT
\* raises IntegrityError (None here) on a key the table holds, and gives the
\* table with the row otherwise.
insert_game(table, row) ==
    IF \E old \in table : old.game_id = row.game_id THEN None
    ELSE Some(table \cup {row})

\* Mutant of LogRow: the two counts in each other's column.
LogRow_swapped(id, t, total_new, total_skipped) ==
    [id |-> id, scrape_date |-> t, games_added |-> total_skipped,
     games_skipped |-> total_new]

\* The row log_scrape_run inserts for main's totals.
LogRow(id, t, total_new, total_skipped) ==
    [id |-> id, scrape_date |-> t, games_added |-> total_new,
     games_skipped |-> total_skipped]

IdleProc ==
    [pc |-> "idle", via |-> "", page |-> 0, games |-> <<>>, game_data |-> None,
     new_count |-> 0, skipped_count |-> 0, total_new |-> 0,
     total_skipped |-> 0, returncode |-> None, response |-> None]

\* History of a run: the pages it requested, the rows it inserted, how many
\* records it checked and how many of them it found known, the scrape_log ids
\* it wrote, the ratings table when it started, what ended it, the page whose
\* fetch failed, the place on the current page of the item last taken, and the
\* place <<page, item>> of the known record it met.
NoHist ==
    [fetched |-> <<>>, added |-> {}, checked |-> 0, known |-> 0, logs |-> {},
     start |-> {}, ended |-> "", failed |-> 0, pos |-> 0, stop |-> <<>>]

StoredRow(n) == Row(parse_game_item(GoodFrag(n))[1], 0)

Stores == {{StoredRow(n) : n \in S} : S \in SUBSET (1..MaxId)}

\* No request to /api/ratings yet: scan is the order in which the engine visits
\* the rows of ratings, args the query of the client's walk through the pages,
\* pages the responses it has got.
NoListing(scan) == [scan |-> scan, args |-> None, pages |-> <<>>]

InitRest ==
    /\ scrape_log = <<>>
    /\ now = 1
    /\ proc = [r \in Runs |-> IdleProc]
    /\ hist = [r \in Runs |-> NoHist]

InitPipeline ==
    /\ InitRest
    /\ listing = NoListing(<<>>)

\* A registry of at most MaxTotal items.
Init ==
    /\ prefix \in Prefixes(MaxTotal)
    /\ tail = "empty"
    /\ ratings \in Stores
    /\ InitPipeline

Active(r) == proc[r].pc \in {"fetch", "items", "insert", "log"}

\* ------------------------------------------------------------- operations
\* Mutant of WhileTest: the cap off by one.
WhileTest_off_by_one(p) == IF p <= max_pages + 1 THEN "fetch" ELSE "log"

\* main: "while page <= max_pages" -- where the run goes with its page counter
\* at p.
WhileTest(p) == IF p <= max_pages THEN "fetch" ELSE "log"

\* scrape_page returned (new_count, skipped_count, has_more) to main, which adds
\* the counts to its totals and breaks, or moves to the next page.
Returned(q, has_more) ==
    [q EXCEPT !.total_new = @ + q.new_count,
              !.total_skipped = @ + q.skipped_count,
              !.new_count = 0, !.skipped_count = 0,
              !.games = <<>>, !.game_data = None,
              !.page = IF has_more THEN @ + 1 ELSE @,
              !.pc = IF has_more THEN WhileTest(q.page + 1) ELSE "log"]

\* Mutant of NoMoreResults: an empty page does not end the run.
NoMoreResults_has_more(q) == Returned(q, TRUE)

\* Mutant of Added: the record is counted and the rest of the page is dropped.
Added_ends_page(q) ==
    [q EXCEPT !.new_count = @ + 1, !.games = <<>>, !.game_data = None,
              !.pc = "items"]

\* Mutant of ExceptHandler: has_more is True after an error.
ExceptHandler_has_more(q) == Returned(q, TRUE)

\* "except Exception": close, return new_count, skipped_count, False.
ExceptHandler(q) == Returned(q, FALSE)

\* "if not games": close, return new_count, skipped_count, False.
NoMoreResults(q) == Returned(q, FALSE)

\* Mutant of Skipped: the skip is counted and the loop goes on.
Skipped_continues(q) ==
    [q EXCEPT !.skipped_count = @ + 1, !.games = Tail(@)]

\* Mutant of Skipped: the skip is counted, the rest of the page is dropped and
\* the run goes on with the next page.
Skipped_next_page(q) == [q EXCEPT !.skipped_count = @ + 1, !.games = <<>>]

\* Mutant of Skipped: the loop is left with "break", so has_more is True.
Skipped_breaks(q) == Returned([q EXCEPT !.skipped_count = @ + 1], TRUE)

\* game_exists is true: count the skip, close, return ..., False.
Skipped(q) == Returned([q EXCEPT !.skipped_count = @ + 1], FALSE)

\* Mutant of Discarded: an unparseable item ends the page and the run.
Discarded_aborts(q) == Returned(q, FALSE)

\* parse_game_item gave None: the loop goes to its next item.
Discarded(q) == [q EXCEPT !.games = Tail(@)]

\* insert_game returned: count the record, the loop goes to its next item.
Added(q) ==
    [q EXCEPT !.new_count = @ + 1, !.games = Tail(@), !.game_data = None,
              !.pc = "items"]

\* The process starts and main sets its counters.  Runs take the slots in order.
Started(r, via) ==
    /\ proc[r].pc = "idle"
    /\ \A o \in Runs : o < r => proc[o].pc # "idle"
    /\ proc' = [proc EXCEPT ![r] =
           [@ EXCEPT !.pc = WhileTest(1), !.page = 1, !.via = via]]
    /\ hist' = [hist EXCEPT ![r] = [@ EXCEPT !.start = ratings]]
    /\ UNCHANGED <<listing, prefix, tail, ratings, scrape_log, now>>

\* "python scrape.py" from a shell, when no run is in progress.
main(r) ==
    /\ \A o \in Runs : ~Active(o)
    /\ Started(r, "shell")

\* fetch_new_data: subprocess.run(['python', 'scrape.py'], timeout=600), in a
\* request thread of its own: other requests may be in progress.
fetch_new_data(r) == Started(r, "trigger")

\* scrape_page, to the start of the item loop: requests.get and raise_for_status
\* raise (caught at line 150), or find_all gives the page's items.
FetchPage(r) ==
    /\ proc[r].pc = "fetch"
    /\ \E ok \in BOOLEAN :
        LET p == proc[r].page
            games == PageAt(p)
            q == [proc[r] EXCEPT !.new_count = 0, !.skipped_count = 0]
        IN  /\ proc' = [proc EXCEPT ![r] =
                   IF ~ok THEN ExceptHandler(q)
                   ELSE IF games = <<>> THEN NoMoreResults(q)
                   ELSE [q EXCEPT !.pc = "items", !.games = games]]
            /\ hist' = [hist EXCEPT ![r] =
                   [@ EXCEPT !.fetched = Append(@, p),
                             !.pos = 0,
                             !.failed = IF ok THEN @ ELSE p,
                             !.ended = IF ~ok THEN "fetch_error"
                                       ELSE IF games = <<>> THEN "empty"
                                       ELSE @]]
    /\ UNCHANGED <<listing, prefix, tail, ratings, scrape_log, now>>

\* One turn of "for game in games", to the call of insert_game.
CheckItem(r) ==
    /\ proc[r].pc = "items"
    /\ proc[r].games # <<>>
    /\ LET q == proc[r]
           game_data == parse_game_item(Head(q.games))
           h == [hist[r] EXCEPT !.pos = @ + 1]
       IN  IF game_data = None
           THEN /\ proc' = [proc EXCEPT ![r] = Discarded(q)]
                /\ hist' = [hist EXCEPT ![r] = h]
           ELSE IF game_exists(ratings, game_data[1].game_id)
           THEN /\ proc' = [proc EXCEPT ![r] = Skipped(q)]
                /\ hist' = [hist EXCEPT ![r] =
                       [h EXCEPT !.checked = @ + 1, !.known = @ + 1,
                                 !.ended = "known",
                                 !.stop = <<q.page, h.pos>>]]
           ELSE /\ proc' = [proc EXCEPT ![r] =
                       [q EXCEPT !.pc = "insert", !.game_data = game_data]]
                /\ hist' = [hist EXCEPT ![r] = [h EXCEPT !.checked = @ + 1]]
    /\ UNCHANGED <<listing, prefix, tail, ratings, scrape_log, now>>

\* insert_game: the INSERT and its commit, or the IntegrityError that the
\* handler at line 150 catches.
InsertItem(r) ==
    /\ proc[r].pc = "insert"
    /\ LET q == proc[r]
           row == Row(q.game_data[1], now)
           table == insert_game(ratings, row)
       IN  IF table = None
           THEN /\ proc' = [proc EXCEPT ![r] = ExceptHandler(q)]
                /\ hist' = [hist EXCEPT ![r] = [@ EXCEPT !.ended = "insert_error"]]
                /\ UNCHANGED <<ratings, now>>
           ELSE /\ ratings' = table[1]
                /\ now' = now + 1
                /\ proc' = [proc EXCEPT ![r] = Added(q)]
                /\ hist' = [hist EXCEPT ![r] = [@ EXCEPT !.added = @ \cup {row}]]
    /\ UNCHANGED <<listing, prefix, tail, scrape_log>>

\* The item loop is over: sleep(1), return (new_count, skipped_count, True).
PageDone(r) ==
    /\ proc[r].pc = "items"
    /\ proc[r].games = <<>>
    /\ proc' = [proc EXCEPT ![r] = Returned(proc[r], TRUE)]
    /\ hist' = [hist EXCEPT ![r] =
           [@ EXCEPT !.ended = IF proc'[r].pc = "log" THEN "cap" ELSE @]]
    /\ UNCHANGED <<listing, prefix, tail, ratings, scrape_log, now>>

\* Mutant of Response: the endpoint does not look at the exit status.
Response_always_success(returncode) == "success"

\* fetch_new_data, after subprocess.run returned: "success" for exit status 0,
\* the error response otherwise.
Response(returncode) == IF returncode = 0 THEN "success" ELSE "error"

\* log_scrape_run, then main returns: the process exits with status 0 and the
\* endpoint answers.
log_scrape_run(r) ==
    /\ proc[r].pc = "log"
    /\ scrape_log' = Append(scrape_log,
           LogRow(Len(scrape_log) + 1, now, proc[r].total_new,
                  proc[r].total_skipped))
    /\ now' = now + 1
    /\ proc' = [proc EXCEPT ![r] =
           [@ EXCEPT !.pc = "done", !.returncode = Some(0),
                     !.response = IF proc[r].via = "trigger"
                                  THEN Some(Response(0)) ELSE None]]
    /\ hist' = [hist EXCEPT ![r] = [@ EXCEPT !.logs = @ \cup {Len(scrape_log) + 1}]]
    /\ UNCHANGED <<listing, prefix, tail, ratings>>

\* subprocess.run's timeout expires: the process is killed where it stands and
\* the endpoint answers with the TimeoutExpired error.  The history of a killed
\* run is dropped.
TimeoutExpired(r) ==
    /\ Active(r)
    /\ proc[r].via = "trigger"
    /\ proc' = [proc EXCEPT ![r] =
           [IdleProc EXCEPT !.pc = "killed", !.via = "trigger",
                            !.response = Some("error")]]
    /\ hist' = [hist EXCEPT ![r] = [NoHist EXCEPT !.ended = "timeout"]]
    /\ UNCHANGED <<listing, prefix, tail, ratings, scrape_log, now>>

\* A sqlite3 call that is in no try block raises (sqlite3.connect in
\* scrape_page, the INSERT of log_scrape_run): the exception leaves main, the
\* process exits with status 1 and has written no log row; the endpoint answers.
\* The history of a run that crashed is dropped.
Crashed(r) ==
    /\ proc[r].pc \in {"fetch", "log"}
    /\ proc[r].via = "trigger"
    /\ proc' = [proc EXCEPT ![r] =
           [IdleProc EXCEPT !.pc = "crashed", !.via = "trigger",
                            !.returncode = Some(1),
                            !.response = Some(Response(1))]]
    /\ hist' = [hist EXCEPT ![r] = [NoHist EXCEPT !.ended = "crash"]]
    /\ UNCHANGED <<listing, prefix, tail, ratings, scrape_log, now>>

\* subprocess.run cannot start the process (OSError): "except Exception"
\* answers with the error response, and no run takes place.
SpawnFailed(r) ==
    /\ proc[r].pc = "idle"
    /\ \A o \in Runs : o < r => proc[o].pc # "idle"
    /\ proc' = [proc EXCEPT ![r] =
           [@ EXCEPT !.pc = "nostart", !.via = "trigger",
                     !.response = Some("error")]]
    /\ UNCHANGED <<listing, prefix, tail, ratings, scrape_log, now, hist>>

Step(r) ==
    \/ FetchPage(r)
    \/ CheckItem(r)
    \/ InsertItem(r)
    \/ PageDone(r)
    \/ log_scrape_run(r)

\* The pipeline run from a shell, one run after the other.
Next == \E r \in Runs : main(r) \/ Step(r)

Spec == Init /\ [][Next]_vars

\* One run from a shell against a registry that may never run out.
InitLong ==
    /\ prefix \in Prefixes(MaxFew)
    /\ tail \in Tails
    /\ ratings \in Stores
    /\ InitPipeline

NextLong == main(1) \/ Step(1)

SpecLong == InitLong /\ [][NextLong]_vars

\* The pipeline run by the trigger endpoint of a threaded server.
InitTrigger ==
    /\ prefix \in Prefixes(MaxFew)
    /\ tail = "empty"
    /\ ratings \in Stores
    /\ InitPipeline

NextTrigger ==
    \E r \in Runs :
        \/ fetch_new_data(r)
        \/ Step(r)
        \/ TimeoutExpired(r)
        \/ Crashed(r)
        \/ SpawnFailed(r)

SpecTrigger == InitTrigger /\ [][NextTrigger]_vars

\* The two-page fixture, run from a shell: page 1 holds Page1New new items, page
\* 2 a stored item and then Page2New new items; the store may hold records of
\* other identifiers, and the registry may go on with unparseable pages.
FixturePage1 == [i \in 1..Page1New |-> GoodFrag(i)]
FixturePage2 == [i \in 1..(Page2New + 1) |-> GoodFrag(Page1New + i)]
FixtureOther == {Page1New + Page2New + 2, Page1New + Page2New + 3}

InitFixture ==
    /\ prefix = <<FixturePage1, FixturePage2>>
    /\ tail \in {"empty", "junk"}
    /\ \E S \in SUBSET FixtureOther :
           ratings = {StoredRow(n) : n \in S \cup {Page1New + 1}}
    /\ InitPipeline

SpecFixture == InitFixture /\ [][Next]_vars

\* One run from a shell, followed to its end, over pages of several items and a
\* registry that may never run out.
InitRun ==
    /\ prefix \in Prefixes(MaxLong)
    /\ tail \in Tails
    /\ ratings \in Stores
    /\ InitPipeline

SpecRun == InitRun /\ [][NextLong]_vars

\* ------------------------------------------------------------- /api/ratings
\* Code points of the characters the listed rows and the filters hold.
Code(c) ==
    CASE c = "A" -> 65 [] c = "E" -> 69 [] c = "T" -> 84 [] c = "a" -> 97
      [] c = "b" -> 98 [] c = "d" -> 100 [] c = "p" -> 112 [] c = "q" -> 113
      [] c = "s" -> 115 [] OTHER -> 32

\* LIKE folds the case of ASCII letters.
Lower(c) == IF c = "A" THEN "a" ELSE IF c = "E" THEN "e"
            ELSE IF c = "T" THEN "t" ELSE c

\* text LIKE '%sub%', for a sub without the wildcards % and _.
Like(text, sub) ==
    \E i \in 1..(Len(text) - Len(sub) + 1) :
        \A j \in 1..Len(sub) : Lower(text[i + j - 1]) = Lower(sub[j])

\* u < v for TEXT values: the BINARY collation.
RECURSIVE TextLess(_, _)
TextLess(u, v) ==
    IF v = <<>> THEN FALSE
    ELSE IF u = <<>> THEN TRUE
    ELSE IF Code(Head(u)) # Code(Head(v)) THEN Code(Head(u)) < Code(Head(v))
    ELSE TextLess(Tail(u), Tail(v))

allowed_sorts == {"game_id", "game_title", "platform", "rating"}

\* The WHERE clause get_ratings builds: a filter that is empty adds no term.
Where(row, args) ==
    /\ args.search # <<>> => Like(row.game_title, args.search)
    /\ args.platform # <<>> => Like(row.platform, args.platform)
    /\ args.rating # <<>> => row.rating = args.rating

\* The whitelist: a sort column that is not allowed becomes game_id.
SortCol(args) == IF args.sort \in allowed_sorts THEN args.sort ELSE "game_id"

\* x sorts before y on column col, ascending.
KeyLess(col, x, y) ==
    IF col = "game_id" THEN x.game_id < y.game_id ELSE TextLess(x[col], y[col])

\* Mutant of ScanOrder: the engine visits the rows in another order when the
\* offset is odd.
ScanOrder_by_offset(scan, offset) ==
    IF offset % 2 = 1 THEN [i \in 1..Len(scan) |-> scan[Len(scan) + 1 - i]]
    ELSE scan

\* The order in which the engine visits the rows for the statement: the LIMIT
\* and OFFSET values are bound parameters of one statement text, so the same
\* for every page while the table does not change.
ScanOrder(scan, offset) == scan

\* ORDER BY col [DESC]: the rows by their key; rows with equal keys stay in the
\* order in which the engine visited them.
OrderBy(rows, col, desc, scan) ==
    LET Position(x) == CHOOSE i \in 1..Len(scan) : scan[i] = x
        Before(x, y) == IF desc THEN KeyLess(col, y, x) ELSE KeyLess(col, x, y)
        First(x, y) ==
            Before(x, y) \/ (~Before(y, x) /\ Position(x) < Position(y))
        Rank(x) == 1 + Cardinality({y \in rows : First(y, x)})
    IN  [i \in 1..Cardinality(rows) |-> CHOOSE x \in rows : Rank(x) = i]

\* LIMIT ? OFFSET ?
LimitOffset(rows, limit, offset) ==
    [i \in 1..(IF Len(rows) - offset < 0 THEN 0
               ELSE IF Len(rows) - offset < limit THEN Len(rows) - offset
               ELSE limit) |-> rows[offset + i]]

\* The JSON get_ratings answers with, for the query args and the page asked.
get_ratings(table, scan, args, page) ==
    LET matched == {row \in table : Where(row, args)}
        total == Cardinality(matched)
        offset == (page - 1) * args.per_page
        rows == LimitOffset(OrderBy(matched, SortCol(args), args.dir = "desc",
                                    ScanOrder(scan, offset)),
                            args.per_page, offset)
    IN  [data |-> rows, total |-> total, page |-> page,
         per_page |-> args.per_page,
         total_pages |-> (total + args.per_page - 1) \div args.per_page]

\* The query strings of the requests.
QueryArgs ==
    [per_page : 1..MaxPerPage, search : {<<>>, <<"a">>},
     platform : {<<>>, <<"p">>}, rating : {<<>>, <<"E">>},
     sort : allowed_sorts \cup {"summary"}, dir : {"asc", "desc"}]

\* GET /api/ratings: a client asks for page 1 of a query and then, with the same
\* query, for the next pages up to total_pages.
RequestRatings ==
    /\ \E args \in QueryArgs :
        LET page == Len(listing.pages) + 1
        IN  /\ IF page = 1 THEN listing.args = None
               ELSE /\ listing.args = Some(args)
                    /\ page <= listing.pages[1].total_pages
            /\ listing' = [listing EXCEPT
                   !.args = Some(args),
                   !.pages = Append(@, get_ratings(ratings, listing.scan,
                                                   args, page))]
    /\ UNCHANGED <<prefix, tail, ratings, scrape_log, now, proc, hist>>

\* Tables of up to MaxListed rows that differ in title, platform and rating.
ListedKinds ==
    {[game_title |-> <<"A">>, platform |-> <<"p">>, rating |-> <<"E">>],
     [game_title |-> <<"b">>, platform |-> <<"q">>, rating |-> <<"T">>]}

ListedRow(n, kind) ==
    [StoredRow(n) EXCEPT !.game_title = kind.game_title,
                         !.platform = kind.platform, !.rating = kind.rating]

QueryStores ==
    UNION {{{ListedRow(n, f[n]) : n \in S} : f \in [S -> ListedKinds]} :
           S \in SUBSET (1..MaxListed)}

\* The orders in which the engine may visit the rows of a table.
ScanOrders(table) ==
    {scan \in [1..Cardinality(table) -> table] :
        \A i \in DOMAIN scan : \A j \in DOMAIN scan : scan[i] = scan[j] => i = j}

\* The query service over a table that no run changes.
InitQuery ==
    /\ prefix = <<>>
    /\ tail = "empty"
    /\ ratings \in QueryStores
    /\ InitRest
    /\ listing \in {NoListing(scan) : scan \in ScanOrders(ratings)}

NextQuery == RequestRatings

SpecQuery == InitQuery /\ [][NextQuery]_vars

\* One run from a shell over a one-item page, the item any combination of the
\* elements parse_game_item looks for; the table is empty.
ParseTexts == {<<>>, <<Title>>, <<<<WS>>>>, <<<<WS, "a", WS>>, <<WS>>>>}

ParseUrls ==
    {Absent, Some(EmptyUrl), Some(OtherUrl)}
        \cup {Some(RatingsUrl(n)) : n \in 0..MaxId}

ParseItems ==
    [h2 : BOOLEAN, a : BOOLEAN, text : ParseTexts, href : ParseUrls,
     platform : {Absent, Some(<<<<"p">>>>)}, alt : {Absent, Some(<<"E">>)},
     table : BOOLEAN, rows : {1, 2}, cells : {1, 2, 4},
     desc : {<<<<"d", ",", ",">>, <<WS, "v">>>>},
     synopsis : {Absent, Some(<<<<"s">>>>)}, raises : BOOLEAN]

InitParse ==
    /\ \E item \in ParseItems : prefix = <<<<item>>>>
    /\ tail = "empty"
    /\ ratings = {}
    /\ InitPipeline

SpecParse == InitParse /\ [][NextLong]_vars

\* ------------------------------------------------------------- helpers
Seq1(n) == [i \in 1..n |-> i]

IdsOf(rows) == {row.game_id : row \in rows}

Parseable(item) == parse_game_item(item) # None

ParsedId(item) == parse_game_item(item)[1].game_id

\* The identifiers of the parseable items before item j of page p, in page order
\* then document order.
IdsBefore(p, j) ==
    UNION {{ParsedId(PageAt(pp)[i]) :
               i \in {k \in 1..Len(PageAt(pp)) :
                         /\ pp < p \/ k < j
                         /\ Parseable(PageAt(pp)[k])}} :
           pp \in 1..p}

\* Run r takes a step.
Steps(r) == proc'[r] # proc[r]

\* Run r is at an item of its loop that parses and whose identifier is stored.
AtKnown(r) ==
    /\ proc[r].pc = "items"
    /\ proc[r].games # <<>>
    /\ Parseable(Head(proc[r].games))
    /\ game_exists(ratings, ParsedId(Head(proc[r].games)))

\* ------------------------------------------------------------- C1
\* C1: a run that meets a parseable item whose identifier is stored stops
\* there: it has inserted every parseable item before it, on this page and on
\* the earlier pages, and nothing else; the known item is its one skip and the
\* last record it checks; it has requested the pages up to this one, each once,
\* and no later page; and it is at its log entry or has ended.
C1_StopsAtKnownRecord ==
    \A r \in Runs :
        hist[r].stop # <<>> =>
            LET p == hist[r].stop[1]
                j == hist[r].stop[2]
            IN  /\ j <= Len(PageAt(p))
                /\ Parseable(PageAt(p)[j])
                /\ ParsedId(PageAt(p)[j]) \in IdsOf(hist[r].start \cup hist[r].added)
                /\ IdsOf(hist[r].added) = IdsBefore(p, j)
                /\ hist[r].known = 1
                /\ proc[r].total_skipped = 1
                /\ hist[r].checked = Cardinality(hist[r].added) + 1
                /\ hist[r].fetched = Seq1(p)
                /\ proc[r].pc \in {"log", "done"}

\* Three pages, the first item of page 2 stored: page 1 is processed fully, the
\* run has stopped at the first item of page 2 and has ended.
C1_Witness ==
    \E r \in Runs :
        /\ Len(prefix) = 3
        /\ hist[r].stop = <<2, 1>>
        /\ ParsedId(prefix[2][1]) \in IdsOf(hist[r].start)
        /\ Cardinality(hist[r].added) = Len(prefix[1])
        /\ proc[r].pc = "done"

\* ------------------------------------------------------------- C2
\* Runs a and b got the same answer for every page both requested.
SameFetches(a, b) ==
    \A p \in 1..max_pages :
        (\E i \in 1..Len(hist[a].fetched) : hist[a].fetched[i] = p)
        /\ (\E i \in 1..Len(hist[b].fetched) : hist[b].fetched[i] = p)
        => ((hist[a].failed = p) <=> (hist[b].failed = p))

\* C2: a run that follows a completed run against the same pages, every fetch
\* answered as in that run, inserts nothing: every record it checks is one it
\* skips, the ratings table stays as the first run left it (until a later run
\* starts), and its log entry has games_added = 0.
C2_SecondRunAddsNothing ==
    \A r \in Runs :
        (r > 1 /\ proc[r].pc # "idle" /\ proc[r - 1].pc = "done"
               /\ SameFetches(r - 1, r)) =>
            /\ hist[r].added = {}
            /\ (\A s \in Runs : s > r => proc[s].pc = "idle") => ratings = hist[r].start
            /\ hist[r].checked = hist[r].known
            /\ proc[r].new_count = 0 /\ proc[r].total_new = 0
            /\ \A id \in hist[r].logs : scrape_log[id].games_added = 0

\* A second run has ended with a skip after a first run that inserted records.
C2_Witness ==
    \E r \in Runs :
        /\ r > 1 /\ proc[r].pc = "done" /\ SameFetches(r - 1, r)
        /\ hist[r - 1].added # {}
        /\ hist[r].known = 1
        /\ hist[r].logs # {}

\* ------------------------------------------------------------- C3
\* C3: a run that has ended has written one scrape_log row, whose games_added is
\* the number of rows the run inserted and whose games_skipped is the number of
\* known records it met; a run that has not ended has written none (the row is
\* the run's last write); and the table holds the rows of the ended runs only.
C3_OneLogEntry ==
    /\ \A r \in Runs :
        IF proc[r].pc = "done"
        THEN /\ Cardinality(hist[r].logs) = 1
             /\ \A id \in hist[r].logs :
                    /\ id \in 1..Len(scrape_log)
                    /\ scrape_log[id].games_added = Cardinality(hist[r].added)
                    /\ scrape_log[id].games_skipped = hist[r].known
             /\ hist[r].added \subseteq ratings
        ELSE hist[r].logs = {}
    /\ Len(scrape_log) = Cardinality({r \in Runs : proc[r].pc = "done"})

\* Runs have ended, with their log rows, at an empty page, at a known record, at
\* a fetch failure and at the page cap -- the last with a row for each page.
C3_Witness ==
    \E r \in Runs :
        /\ proc[r].pc = "done"
        /\ hist[r].ended = "cap"
        /\ Cardinality(hist[r].added) >= max_pages - 1
        /\ \E id \in hist[r].logs : scrape_log[id].games_added >= max_pages - 1

\* ------------------------------------------------------------- C6
\* The steps a run has left are at most Variant: it falls with every step.
LongestPage ==
    LET lens == {Len(prefix[i]) : i \in 1..Len(prefix)} \cup {1}
    IN  CHOOSE n \in lens : \A m \in lens : m <= n

PageSteps == 2 * LongestPage + 2

Variant(r) ==
    LET q == proc[r]
    IN  IF q.pc = "done" THEN 0
        ELSE IF q.pc = "log" THEN 1
        ELSE IF q.pc = "fetch" THEN 2 + (max_pages - q.page + 1) * PageSteps
        ELSE IF q.pc = "items"
             THEN 2 + (max_pages - q.page) * PageSteps + 2 * Len(q.games) + 1
        ELSE IF q.pc = "insert"
             THEN 2 + (max_pages - q.page) * PageSteps + 2 * Len(q.games)
        ELSE 3 + max_pages * PageSteps

C6_Terminates ==
    \A r \in Runs :
        /\ Variant(r) >= 0
        /\ Steps(r) => Variant(r)' < Variant(r)

C6_AtMostFiftyPages ==
    \A r \in Runs :
        /\ Len(hist[r].fetched) <= max_pages
        /\ \A i \in 1..Len(hist[r].fetched) : hist[r].fetched[i] = i
        /\ Active(r) => ENABLED Step(r)
        /\ hist[r].ended = "cap" =>
               /\ hist[r].fetched = Seq1(max_pages)
               /\ proc[r].pc \in {"log", "done"}
               /\ proc[r].pc = "done" => hist[r].logs # {}

\* C6: a run requests the pages 1, 2, ... in order and never more than
\* max_pages of them; a run that is not at its end can take a step, and every
\* step lowers a bounded count of the steps left, so it ends; a run that the cap
\* ended has requested max_pages pages and ends with its log row written.
C6_PageCap == [](C6_AtMostFiftyPages) /\ [][C6_Terminates]_vars

\* A run over pages that all hold a new record has ended at the cap.
C6_Witness ==
    \E r \in Runs :
        /\ tail = "fresh"
        /\ proc[r].pc = "done"
        /\ hist[r].ended = "cap"
        /\ Len(hist[r].fetched) = max_pages
        /\ proc[r].total_new >= max_pages - 1
        /\ hist[r].logs # {}

\* ------------------------------------------------------------- C7
\* C7: a run whose fetch of page p failed has requested the pages 1..p, each
\* once, and none after; it is at its log entry or has ended; it has met no
\* known record; the rows it inserted are those of the parseable items of pages
\* 1..p-1, they are what its counter holds, and they are in the table as
\* inserted.
C7_FetchFailureEndsRun ==
    \A r \in Runs :
        hist[r].failed # 0 =>
            LET p == hist[r].failed
            IN  /\ hist[r].fetched = Seq1(p)
                /\ proc[r].pc \in {"log", "done"}
                /\ hist[r].ended = "fetch_error"
                /\ IdsOf(hist[r].added) = IdsBefore(p, 1)
                /\ proc[r].total_new = Cardinality(hist[r].added)
                /\ proc[r].total_skipped = 0 /\ hist[r].known = 0
                /\ hist[r].added \subseteq ratings

\* A run has ended at a failed fetch of a page after page 1, its earlier records
\* in the table.
C7_Witness ==
    \E r \in Runs :
        /\ hist[r].failed > 1
        /\ hist[r].added # {}
        /\ proc[r].pc = "done"

\* ------------------------------------------------------------- C8
\* C8: the step that takes an unparseable item changes nothing but the run's
\* place in its page: the item is dropped, the rest of the page is still to be
\* processed in order, no counter, table or request changes.
C8_Step ==
    \A r \in Runs :
        (/\ proc[r].pc = "items"
         /\ proc[r].games # <<>>
         /\ ~Parseable(Head(proc[r].games))
         /\ Steps(r)) =>
            /\ proc'[r] = [proc[r] EXCEPT !.games = Tail(@)]
            /\ hist'[r] = [hist[r] EXCEPT !.pos = @ + 1]
            /\ UNCHANGED <<ratings, scrape_log, now, prefix, tail>>

InsertsKnown(r) ==
    /\ proc[r].pc = "insert"
    /\ game_exists(ratings, proc[r].game_data[1].game_id)

C4_UniqueIds ==
    \A a \in ratings : \A b \in ratings : a.game_id = b.game_id => a = b

C4_DuplicateInsertFails ==
    \A r \in Runs :
        (InsertsKnown(r) /\ Steps(r) /\ proc'[r].pc # "killed") =>
            /\ ratings' = ratings
            /\ hist'[r].ended = "insert_error"
            /\ hist'[r].added = hist[r].added
            /\ proc'[r].total_new = proc[r].total_new + proc[r].new_count

\* C4: no two rows of ratings have the same identifier, and an insert of an
\* identifier the table holds raises the constraint error and leaves the table
\* as it was.
C4_DedupeCorrectness == [](C4_UniqueIds) /\ [][C4_DuplicateInsertFails]_vars

\* An insert has failed on an identifier that another run had inserted.
C4_Witness ==
    \E r \in Runs : \E o \in Runs :
        /\ hist[r].ended = "insert_error"
        /\ hist[o].added # {}
        /\ ratings # {}

\* ------------------------------------------------------------- C9
C9_Step ==
    /\ \A row \in ratings : row \in ratings'
    /\ \A r \in Runs : (AtKnown(r) /\ Steps(r)) => ratings' = ratings

\* C9: no step removes a row of ratings or changes one (created_at included),
\* and the step that takes an item whose identifier is stored leaves the table
\* as it is.
C9_AppendOnly == [][C9_Step]_vars

\* A run has met a known record in a table that holds rows inserted by a run.
C9_Witness ==
    \E r \in Runs : \E o \in Runs :
        /\ hist[r].known = 1
        /\ hist[o].added # {}
        /\ hist[o].added \subseteq ratings

\* ------------------------------------------------------------- C10
\* C10: however the runs that the trigger endpoint starts interleave, no run
\* calls insert_game with an identifier the table holds at the call, and no
\* insert ends in the constraint error.
C10_NoDuplicateInsert ==
    \A r \in Runs :
        /\ ~InsertsKnown(r)
        /\ hist[r].ended # "insert_error"

\* ------------------------------------------------------------- C5
\* The run started on the fixture: page 1 all new, page 2 a stored item first
\* and then new items.
FixtureRun(r) ==
    /\ proc[r].pc = "done"
    /\ hist[r].failed = 0
    /\ IdsOf(hist[r].start) \cap IdsBefore(2, Len(PageAt(2)) + 1)
           = {ParsedId(PageAt(2)[1])}

\* C5 as claimed: the run ends with added = Page1New + Page2New, skipped = 1,
\* and has requested the pages 1 and 2 only.
C5_AddsFive ==
    \A r \in Runs :
        FixtureRun(r) =>
            /\ proc[r].total_new = Page1New + Page2New
            /\ proc[r].total_skipped = 1
            /\ hist[r].fetched = <<1, 2>>

\* C5 as amended: the run ends with added = Page1New (the items of page 1),
\* skipped = 1, its log row says so, and it has requested the pages 1 and 2
\* only.
C5_AddsPageOne ==
    \A r \in Runs :
        FixtureRun(r) =>
            /\ proc[r].total_new = Page1New
            /\ proc[r].total_skipped = 1
            /\ hist[r].fetched = <<1, 2>>
            /\ IdsOf(ratings) \cap IdsBefore(2, Len(PageAt(2)) + 1)
                   = IdsBefore(2, 2)
            /\ \A id \in hist[r].logs :
                   /\ scrape_log[id].games_added = Page1New
                   /\ scrape_log[id].games_skipped = 1

\* The fixture's run has ended, the new items of page 2 not in the table.
C5_Witness ==
    \E r \in Runs :
        /\ FixtureRun(r)
        /\ hist[r].stop = <<2, 1>>
        /\ Cardinality(hist[r].added) = Page1New
        /\ hist[r].logs # {}

\* ------------------------------------------------------------- C11
\* C11: a run whose insert raised the constraint error does not go on as a
\* normal run: it does not write its log entry, does not exit with status 0 and
\* its trigger request is not answered with success.
C11_ConstraintErrorPropagates ==
    \A r \in Runs :
        hist[r].ended = "insert_error" =>
            /\ proc[r].pc \notin {"log", "done"}
            /\ hist[r].logs = {}
            /\ proc[r].returncode # Some(0)
            /\ proc[r].response # Some("success")

\* ------------------------------------------------------------- C12
\* The item has a title: the h2, its link, and text in the link.
HasTitle(item) == item.h2 /\ item.a /\ get_text(item.text, <<>>) # <<>>

\* The item's URL holds /ratings/<digits>/.
HasId(item) ==
    /\ item.href # Absent
    /\ item.href[1].path = "ratings"
    /\ item.href[1].digits # <<>>

\* C12: an item with a title and a URL that holds a numeric identifier, none of
\* whose extraction steps raises, gives a record whatever other elements it has
\* -- the fields of the absent ones empty -- and an item is discarded only when
\* its title or its identifier is missing.
C12_ParserRobust ==
    \A r \in Runs :
        hist[r].pos = 1 /\ hist[r].fetched = <<1>> =>
            LET item == prefix[1][1]
            IN  /\ (HasTitle(item) /\ HasId(item) /\ ~item.raises) =>
                       /\ hist[r].checked = 1
                       /\ proc[r].pc = "insert" =>
                              LET d == proc[r].game_data[1]
                              IN  /\ d.game_id = ToInt(item.href[1].digits)
                                  /\ item.platform = Absent => d.platform = <<>>
                                  /\ item.alt = Absent => d.rating = <<>>
                                  /\ (~item.table \/ item.rows < 2 \/ item.cells < 2)
                                         => d.descriptors = <<>>
                                  /\ (~item.table \/ item.rows < 2 \/ item.cells < 4
                                         \/ item.synopsis = Absent)
                                         => d.summary = <<>>
                /\ hist[r].checked = 0 =>
                       ~HasTitle(item) \/ ~HasId(item) \/ item.raises

\* ------------------------------------------------------------- C13
\* C13: every row of ratings, and every record insert_game is called with, has
\* a title that is not empty.
C13_NonEmptyTitle ==
    /\ \A row \in ratings : row.game_title # <<>>
    /\ \A r \in Runs :
           proc[r].pc = "insert" => proc[r].game_data[1].game_title # <<>>

\* ------------------------------------------------------------- C14
\* The smallest number of pages of per_page records that hold total records.
CeilDiv(total, per_page) ==
    CHOOSE k \in 0..total :
        k * per_page >= total /\ (k = 0 \/ (k - 1) * per_page < total)

\* The places <<page, index>> of the records the client has got.
Places ==
    {<<i, k>> : i \in 1..Len(listing.pages), k \in 1..MaxPerPage} \cap
    {pl \in (1..Len(listing.pages)) \X (1..MaxPerPage) :
        pl[2] <= Len(listing.pages[pl[1]].data)}

RecordAt(pl) == listing.pages[pl[1]].data[pl[2]]

ProcessedWhole(r, p) ==
    /\ hist[r].failed # p
    /\ PageAt(p) # <<>>
    /\ hist[r].stop = <<>> \/ hist[r].stop[1] # p
    /\ hist[r].ended # "insert_error"
    /\ \A k \in 1..Len(PageAt(p)) :
           Parseable(PageAt(p)[k]) =>
               ParsedId(PageAt(p)[k]) \in IdsOf(hist[r].added)

\* C15: a run requests the pages 1, 2, 3, ... in order, each once; when it is
\* about to request page p + 1, and when it has just requested it, page p was
\* fetched, held items, all of them processed and none known, and
\* p < max_pages; a run that has left its loop did so because its last page was
\* not such a page; while it works on the items of a page it has requested no
\* later page.
C15_PagesInOrder ==
    \A r \in Runs :
        LET n == Len(hist[r].fetched)
        IN  /\ hist[r].fetched = Seq1(n)
            /\ n >= 2 => ProcessedWhole(r, n - 1) /\ n - 1 < max_pages
            /\ proc[r].pc = "fetch" =>
                   /\ proc[r].page = n + 1
                   /\ n >= 1 => ProcessedWhole(r, n) /\ n < max_pages
            /\ proc[r].pc \in {"items", "insert"} => proc[r].page = n /\ n >= 1
            /\ proc[r].pc \in {"log", "done"} =>
                   /\ n >= 1
                   /\ ~(ProcessedWhole(r, n) /\ n < max_pages)

\* A run went from a page of two items, both processed, to the next pages and
\* has ended at the page cap.
C15_Witness ==
    \E r \in Runs :
        /\ Len(prefix) >= 1 /\ Len(prefix[1]) = 2
        /\ ProcessedWhole(r, 1)
        /\ Len(hist[r].fetched) = max_pages
        /\ proc[r].pc = "done"

\* ------------------------------------------------------------- C16
\* The items of the pages 1..last, each with its place <<page, item>> and what
\* the parser makes of it.
ParsedItems(last) ==
    UNION {{[place |-> <<p, k>>, data |-> parse_game_item(PageAt(p)[k])] :
               k \in 1..Len(PageAt(p))} : p \in 1..last}

PlaceBefore(a, b) == a[1] < b[1] \/ (a[1] = b[1] /\ a[2] < b[2])

\* C16: when a run without a fetch failure has left its loop, the table is the
\* table it started with and the rows it inserted; these are, one row each and
\* with the fields the parser gives, the parseable items before the first
\* parseable item whose identifier was in the table at the start or is that of
\* a parseable item before it, or, when there is no such item, all those of the
\* pages before the first empty page or of all max_pages pages.
C16_StoreAtEnd ==
    \A r \in Runs :
        (proc[r].pc \in {"log", "done"} /\ hist[r].failed = 0) =>
            LET last == Len(hist[r].fetched)
                items == {it \in ParsedItems(last) : it.data # None}
                known == {it \in items :
                             \/ it.data[1].game_id \in IdsOf(hist[r].start)
                             \/ \E o \in items :
                                    /\ PlaceBefore(o.place, it.place)
                                    /\ o.data[1].game_id = it.data[1].game_id}
                first == {it \in known :
                             \A o \in known : ~PlaceBefore(o.place, it.place)}
                upto == IF first = {} THEN <<last + 1, 1>>
                        ELSE (CHOOSE it \in first : TRUE).place
                new == {it \in items : PlaceBefore(it.place, upto)}
            IN  /\ ratings = hist[r].start \cup hist[r].added
                /\ {[row EXCEPT !.created_at = 0] : row \in hist[r].added}
                       = {Row(it.data[1], 0) : it \in new}
                /\ Cardinality(hist[r].added) = Cardinality(new)
                /\ IdsOf(hist[r].added) \cap IdsOf(hist[r].start) = {}
                /\ IF first = {}
                   THEN /\ hist[r].stop = <<>>
                        /\ \A p \in 1..(last - 1) : PageAt(p) # <<>>
                        /\ PageAt(last) = <<>> \/ last = max_pages
                   ELSE hist[r].stop = upto

\* A run has ended at an item whose identifier it had inserted itself, from an
\* item earlier in the run.
C16_Witness ==
    \E r \in Runs :
        /\ proc[r].pc = "done" /\ hist[r].failed = 0
        /\ hist[r].stop # <<>>
        /\ ParsedId(PageAt(hist[r].stop[1])[hist[r].stop[2]])
               \in IdsOf(hist[r].added) \ IdsOf(hist[r].start)
        /\ ratings = hist[r].start \cup hist[r].added

\* ------------------------------------------------------------- C17
\* C17: the skip counters of a run -- of the page it is on and of the run -- are
\* 0 or 1, together at most 1, and so is games_skipped in every scrape_log row.
C17_SkipAtMostOne ==
    /\ \A r \in Runs :
           /\ proc[r].skipped_count \in {0, 1}
           /\ proc[r].total_skipped \in {0, 1}
           /\ proc[r].skipped_count + proc[r].total_skipped <= 1
           /\ hist[r].known <= 1
    /\ \A id \in 1..Len(scrape_log) : scrape_log[id].games_skipped \in {0, 1}

\* A run over pages that hold two stored records or more has ended, its log row
\* with games_skipped = 1.
C17_Witness ==
    \E r \in Runs :
        /\ proc[r].pc = "done"
        /\ \E id \in hist[r].logs : scrape_log[id].games_skipped = 1
        /\ Len(prefix) >= 2
        /\ \A p \in 1..2 :
               /\ Parseable(prefix[p][1])
               /\ ParsedId(prefix[p][1]) \in IdsOf(hist[r].start)
        /\ ParsedId(prefix[1][1]) # ParsedId(prefix[2][1])

\* ------------------------------------------------------------- C18
\* C18: a trigger request is answered when its process has exited, was killed
\* at the timeout or could not be started; the answer is the error response
\* exactly for a non-zero exit status, the timeout and the failed start, and
\* success exactly for exit status 0; a run that a fetch failure ended exits
\* with status 0 and is answered with success.
C18_TriggerResponse ==
    \A r \in Runs :
        proc[r].via = "trigger" =>
            /\ proc[r].response # None
                   <=> proc[r].pc \in {"done", "crashed", "killed", "nostart"}
            /\ proc[r].response = Some("error")
                   <=> \/ proc[r].pc \in {"killed", "nostart"}
                       \/ proc[r].returncode # None /\ proc[r].returncode[1] # 0
            /\ proc[r].response = Some("success")
                   <=> proc[r].returncode = Some(0)
            /\ proc[r].pc = "crashed" => proc[r].returncode = Some(1)
            /\ (proc[r].pc = "done" /\ hist[r].ended = "fetch_error") =>
                   /\ proc[r].returncode = Some(0)
                   /\ proc[r].response = Some("success")

\* One request was answered with success after a run that a fetch failure
\* ended, another with the error of a process that exited with status 1.
C18_Witness ==
    \E r \in Runs : \E o \in Runs :
        /\ proc[r].pc = "done" /\ hist[r].ended = "fetch_error"
        /\ hist[r].logs # {}
        /\ proc[r].response = Some("success")
        /\ proc[o].pc = "crashed"
        /\ proc[o].response = Some("error")

====
